---- MODULE Spec2Model ----
(***************************************************************************)
(* CareTrek icon generators: create_creative_icons.py,                     *)
(* create_professional_icons.py, generate_icons.py and                     *)
(* scripts/generate_assets.py.                                             *)
(*                                                                         *)
(* Spec       : the four entry points run one after another over a shared  *)
(*              assets directory; every statement that allocates, saves,   *)
(*              prints, raises or returns is one action.                   *)
(* SpecGrad   : the gradient loops (filled ellipses, arcs, rows, columns)  *)
(*              with the float arithmetic of the colour interpolation.     *)
(* SpecThumb  : the per-icon resize-and-centre arithmetic of               *)
(*              generate_icons.create_icons.                               *)
(* SpecHeart  : the sampling loops of the heart polygons and the guard of  *)
(*              draw_smooth_heart.                                         *)
(*                                                                         *)
(* The three relative ASSETS_DIR = "assets" and the absolute               *)
(* d:\CareTrek-new\assets of generate_assets are taken to be one           *)
(* directory (the scripts are run from the repository root), which is the  *)
(* case in which the scripts can interfere at all.                         *)
(***************************************************************************)
EXTENDS Integers, Sequences, FiniteSets, TLC

\* ------------------------------------------------------------------------
\* Bounds of the model
\* ------------------------------------------------------------------------

\* How many script runs one behaviour strings together.
MaxRuns == 2

\* create_gradient_background is tried on images of 1..MaxHeight rows.
MaxHeight == 8

\* The source images of create_icons have sides 1 + SrcStride * k,
\* k in 0..MaxSrcK, and the sides of the ICONS entries and their neighbours.
SrcStride == 37
MaxSrcK == 40

\* ------------------------------------------------------------------------
\* Names
\* ------------------------------------------------------------------------

Scripts == {"create_creative_icons", "create_professional_icons",
            "generate_icons", "generate_assets"}

\* The two scripts that start from a source image.
SourceScripts == {"generate_icons", "generate_assets"}

\* generate_icons.py:12 and generate_assets.py:5: the same file of the
\* assets directory.
SOURCE_IMAGE == "ChatGPT Image Nov 6, 2025, 07_19_20 PM.png"

FONT_FILE == "arial.ttf"

\* SourcePath with generate_assets pointed at the icon it writes itself.
SourcePathOwnOutput(s) ==
    IF s = "generate_assets" THEN "icon.png" ELSE SOURCE_IMAGE

\* The file a script opens for reading as its source.
SourcePath(s) == SOURCE_IMAGE

\* generate_icons.py:15-20, in dictionary (insertion) order.
ICONS ==
    << [name |-> "icon.png",          w |-> 1024, h |-> 1024],
       [name |-> "favicon.png",       w |-> 192,  h |-> 192],
       [name |-> "adaptive-icon.png", w |-> 108,  h |-> 108],
       [name |-> "splash-icon.png",   w |-> 1280, h |-> 1280] >>

\* What each creation step allocates (Image.new, Image.resize) and the name
\* it saves under, in the order the entry point runs the steps.
\* kind: "new" a fresh buffer, "resize" a resized copy of the source,
\* "reuse" the previous step's buffer saved again (generate_assets.py:47).
AllocTable(s) ==
    CASE s = "create_creative_icons" ->
         << [name |-> "icon.png",              w |-> 1024, h |-> 1024, kind |-> "new"],
            [name |-> "adaptive-icon.png",     w |-> 108,  h |-> 108,  kind |-> "new"],
            [name |-> "favicon.png",           w |-> 192,  h |-> 192,  kind |-> "new"],
            [name |-> "splash-icon.png",       w |-> 1280, h |-> 1280, kind |-> "new"],
            [name |-> "notification-icon.png", w |-> 192,  h |-> 192,  kind |-> "new"],
            [name |-> "app-store-icon.png",    w |-> 1024, h |-> 1024, kind |-> "new"],
            [name |-> "banner-icon.png",       w |-> 1200, h |-> 400,  kind |-> "new"] >>
      [] s = "create_professional_icons" ->
         << [name |-> "icon.png",              w |-> 1024, h |-> 1024, kind |-> "new"],
            [name |-> "adaptive-icon.png",     w |-> 108,  h |-> 108,  kind |-> "new"],
            [name |-> "favicon.png",           w |-> 192,  h |-> 192,  kind |-> "new"],
            [name |-> "splash-icon.png",       w |-> 1280, h |-> 1280, kind |-> "new"],
            [name |-> "notification-icon.png", w |-> 192,  h |-> 192,  kind |-> "new"],
            [name |-> "app-store-icon.png",    w |-> 1024, h |-> 1024, kind |-> "new"],
            [name |-> "banner-icon.png",       w |-> 1200, h |-> 400,  kind |-> "new"],
            [name |-> "logo-variant.png",      w |-> 512,  h |-> 512,  kind |-> "new"] >>
      [] s = "generate_icons" ->
         [k \in 1..Len(ICONS) |->
            [name |-> ICONS[k].name, w |-> ICONS[k].w, h |-> ICONS[k].h,
             kind |-> "new"]]
      [] s = "generate_assets" ->
         << [name |-> "icon.png",          w |-> 1024, h |-> 1024, kind |-> "resize"],
            [name |-> "adaptive-icon.png", w |-> 1024, h |-> 1024, kind |-> "new"],
            [name |-> "splash-icon.png",   w |-> 1024, h |-> 1024, kind |-> "reuse"] >>

\* AllocSteps with the professional favicon allocated at 180x180.
AllocStepsSmallFavicon(s) ==
    IF s = "create_professional_icons"
    THEN [AllocTable(s) EXCEPT ![3].w = 180, ![3].h = 180]
    ELSE AllocTable(s)

\* AllocSteps with the creative adaptive icon allocated at the main icon's
\* 1024x1024.
AllocStepsAdaptiveLarge(s) ==
    IF s = "create_creative_icons"
    THEN [AllocTable(s) EXCEPT ![2].w = 1024, ![2].h = 1024]
    ELSE AllocTable(s)

\* The step list of entry point s.
AllocSteps(s) == AllocTable(s)

\* The size each script documents for the file of step k: the
\* "Created <name> (WxH)" status line, the ICONS entry, or the numbered
\* comment above the save.  w = 0: the script documents no size
\* (generate_assets.py:42, "# 3. splash-icon.png").
DocSteps(s) ==
    CASE s = "create_creative_icons" ->
         << [name |-> "icon.png",              w |-> 1024, h |-> 1024],
            [name |-> "adaptive-icon.png",     w |-> 108,  h |-> 108],
            [name |-> "favicon.png",           w |-> 192,  h |-> 192],
            [name |-> "splash-icon.png",       w |-> 1280, h |-> 1280],
            [name |-> "notification-icon.png", w |-> 192,  h |-> 192],
            [name |-> "app-store-icon.png",    w |-> 1024, h |-> 1024],
            [name |-> "banner-icon.png",       w |-> 1200, h |-> 400] >>
      [] s = "create_professional_icons" ->
         << [name |-> "icon.png",              w |-> 1024, h |-> 1024],
            [name |-> "adaptive-icon.png",     w |-> 108,  h |-> 108],
            [name |-> "favicon.png",           w |-> 192,  h |-> 192],
            [name |-> "splash-icon.png",       w |-> 1280, h |-> 1280],
            [name |-> "notification-icon.png", w |-> 192,  h |-> 192],
            [name |-> "app-store-icon.png",    w |-> 1024, h |-> 1024],
            [name |-> "banner-icon.png",       w |-> 1200, h |-> 400],
            [name |-> "logo-variant.png",      w |-> 512,  h |-> 512] >>
      [] s = "generate_icons" ->
         [k \in 1..Len(ICONS) |->
            [name |-> ICONS[k].name, w |-> ICONS[k].w, h |-> ICONS[k].h]]
      [] s = "generate_assets" ->
         << [name |-> "icon.png",          w |-> 1024, h |-> 1024],
            [name |-> "adaptive-icon.png", w |-> 1024, h |-> 1024],
            [name |-> "splash-icon.png",   w |-> 0,    h |-> 0] >>

NSteps(s) == Len(AllocSteps(s))

OutputNames(s) == {AllocSteps(s)[k].name : k \in 1..NSteps(s)}

AllOutputs == UNION {OutputNames(s) : s \in Scripts}

Files == AllOutputs \cup {SOURCE_IMAGE}

\* The steps that try to load the truetype font.
LoadsFont(s, k) ==
    \/ s = "create_creative_icons" /\ k = 4
    \/ s = "create_professional_icons" /\ k \in {4, 7}

\* The fonts a step holds: "none" before the loading (and the banner's
\* second font), "truetype" for arial.ttf, "default" for load_default().
NoFonts == [large |-> "none", small |-> "none"]

\* How the truetype calls of a text step can end: every call returns, the
\* first raises (the second is then not made), or the second raises.  The
\* banner makes one call.
FontOutcomes(s, k) ==
    IF s = "create_professional_icons" /\ k = 7
    THEN {"loaded", "first raised"}
    ELSE {"loaded", "first raised", "second raised"}

\* FontsAfter with a fallback of its own for each font.
FontsAfterEachOnItsOwn(s, k, outcome) ==
    IF s = "create_professional_icons" /\ k = 7
    THEN [large |-> IF outcome = "loaded" THEN "truetype" ELSE "default",
          small |-> "none"]
    ELSE [large |-> IF outcome = "first raised" THEN "default" ELSE "truetype",
          small |-> IF outcome = "loaded" THEN "truetype" ELSE "default"]

\* The fonts after the try/except around the truetype calls: the except
\* block assigns every font of the step anew.
FontsAfter(s, k, outcome) ==
    IF s = "create_professional_icons" /\ k = 7
    THEN [large |-> IF outcome = "loaded" THEN "truetype" ELSE "default",
          small |-> "none"]
    ELSE IF outcome = "loaded"
         THEN [large |-> "truetype", small |-> "truetype"]
         ELSE [large |-> "default", small |-> "default"]

\* ------------------------------------------------------------------------
\* Exceptions
\* ------------------------------------------------------------------------

\* What the library calls of a step raise.
OpenErrors == {"OSError"}
DrawErrors == {"ValueError", "MemoryError"}
SaveErrors == {"OSError"}

\* The classes that derive from BaseException and not from Exception.
NotExceptions == {"KeyboardInterrupt", "SystemExit", "GeneratorExit"}

\* Caught as `except OSError:` would catch.
CaughtOnlyOSError(kind) == kind = "OSError"

\* `except Exception as e:` of every entry point.
Caught(kind) == kind \notin NotExceptions

\* HandlerOutput with the traceback of the two main() dropped.
HandlerOutputNoTraceback(s) == << [tag |-> "error", name |-> ""] >>

\* What the except block prints.
HandlerOutput(s) ==
    IF s \in {"create_creative_icons", "create_professional_icons"}
    THEN << [tag |-> "error", name |-> ""], [tag |-> "traceback", name |-> ""] >>
    ELSE << [tag |-> "error", name |-> ""] >>

\* HandlerReturn with create_icons' `return False` turned into True.
HandlerReturnTrue(s) == IF s = "generate_icons" THEN "True" ELSE "None"

\* The value the entry point returns from its except block.
HandlerReturn(s) == IF s = "generate_icons" THEN "False" ELSE "None"

\* The value the entry point returns when the source image is missing.
MissingReturn(s) == IF s = "generate_icons" THEN "False" ELSE "None"

\* The value the entry point returns after its last step.
SuccessReturn(s) == IF s = "generate_icons" THEN "True" ELSE "None"

\* The exit status of the process: the __main__ block calls the entry point
\* and drops what it returns.
ExitCode(s, r) == 0

\* ------------------------------------------------------------------------
\* State
\* ------------------------------------------------------------------------

VARIABLES
    pc,          \* where the running script is
    script,      \* the script of the current (or last) run
    step,        \* the creation step of the run, 0 before the first
    buf,         \* the image buffer the current step holds: its size
    fs,          \* the assets directory: file name -> what is on disk
    log,         \* what this run has printed, in order
    ret,         \* what the entry point returned ("none": not yet)
    exc,         \* the exception raised in this run ("none": none)
    propagated,  \* an exception left the entry point
    exitCode,    \* exit status of the last finished run
    reads,       \* every file name any run has opened for reading
    attempts,    \* this run: how often each step was entered
    saved,       \* this run: the names saved
    failedAt,    \* this run: the step that raised (0: none; -1: the open)
    runs,        \* the number of runs started
    pix,         \* what the buffer of the current step shows
    disk,        \* file name -> what the file on disk shows
    fonts,       \* the fonts last loaded in this run
    \* a gradient loop (SpecGrad)
    g,           \* the loop being run: its constants
    gk,          \* the iterations done
    gNum,        \* the numerator of the last ratio (its denominator: g.den)
    gCol,        \* the last colour computed
    gPrevNum,    \* the numerator before the last
    gPrevCol,    \* the colour before the last
    gSawZero,    \* some ratio of the loop was 0
    gSawOne,     \* some ratio of the loop was 1
    ray,         \* the pixels along one ray from the centre of the disc
    \* the icon loop of create_icons (SpecThumb)
    tOpened,     \* the size of the source image as Image.open returned it
    tSrc,        \* the size of the `source` object now
    tIdx,        \* the ICONS entries done
    tResized,    \* the size of source_resized after thumbnail()
    tPos,        \* the paste offsets (x, y)
    tIcon,       \* the size of the icon saved
    \* a heart polygon (SpecHeart)
    hCall,       \* the heart being drawn: its loop and its size argument
    hNext,       \* the next value of `angle`
    hPoints,     \* points, as the angles they were sampled at
    hDrawn,      \* the point list handed to draw.polygon
    hDone        \* the heart code has run to its end

runVars == << pc, script, step, buf, fs, log, ret, exc, propagated, exitCode,
              reads, attempts, saved, failedAt, runs, pix, disk, fonts >>

gradVars == << g, gk, gNum, gCol, gPrevNum, gPrevCol, gSawZero, gSawOne, ray >>

thumbVars == << tOpened, tSrc, tIdx, tResized, tPos, tIcon >>

heartVars == << hCall, hNext, hPoints, hDrawn, hDone >>

vars == << runVars, gradVars, thumbVars, heartVars >>

NoFile == [w |-> 0, h |-> 0, by |-> "none", run |-> 0]
NoBuf == [w |-> 0, h |-> 0]

\* The source image as it lies in the directory before any run.
SourceFile == [w |-> 1, h |-> 1, by |-> "external", run |-> 0]

Line(t) == [tag |-> t, name |-> ""]

\* A picture: the canvas it starts from, the image pasted on it and where,
\* and for a picture drawn by a create_* step the step that drew it.
NoPix == [canvas |-> "none", paste |-> "none", logo |-> NoBuf,
          at |-> << >>, drawing |-> << >>]

\* What the buffer shows after the body of step k of entry point s, prev
\* being what it showed before.
\*   generate_assets 1: the source resized to 1024x1024, saved as it is;
\*   generate_assets 2: a transparent 1024x1024 canvas, the source resized
\*     to 720x720 pasted at ((1024 - 720) // 2, (1024 - 720) // 2);
\*   generate_assets 3: no statement between the save of adaptive-icon.png
\*     and the save of splash-icon.png touches adaptive_bg;
\*   create_icons: a transparent canvas with the thumbnail of the source
\*     pasted at the centring offsets (their arithmetic: ThumbIcon);
\*   the create_* steps: a drawing of their own.
PaintTable(s, k, prev) ==
    CASE s = "generate_assets" /\ k = 1 ->
         [canvas |-> "none", paste |-> "resize",
          logo |-> [w |-> 1024, h |-> 1024], at |-> << 0, 0 >>,
          drawing |-> << >>]
      [] s = "generate_assets" /\ k = 2 ->
         [canvas |-> "transparent", paste |-> "resize",
          logo |-> [w |-> 720, h |-> 720],
          at |-> << (1024 - 720) \div 2, (1024 - 720) \div 2 >>,
          drawing |-> << >>]
      [] s = "generate_assets" /\ k = 3 -> prev
      [] s = "generate_icons" ->
         [canvas |-> "transparent", paste |-> "thumbnail",
          logo |-> [w |-> ICONS[k].w, h |-> ICONS[k].h], at |-> << >>,
          drawing |-> << >>]
      [] OTHER ->
         [canvas |-> "drawing", paste |-> "none", logo |-> NoBuf,
          at |-> << >>, drawing |-> << s, k >>]

\* Paint with the splash step of generate_assets painting "just the icon
\* itself" (generate_assets.py:45) instead of saving adaptive_bg again.
PaintSplashFromIcon(s, k, prev) ==
    IF s = "generate_assets" /\ k = 3
    THEN PaintTable(s, 1, prev)
    ELSE PaintTable(s, k, prev)

Paint(s, k, prev) == PaintTable(s, k, prev)

\* The longest step list, of create_professional_icons.main.
MaxSteps == NSteps("create_professional_icons")

RunInit ==
    /\ pc = "idle"
    /\ script = "none"
    /\ step = 0
    /\ buf = NoBuf
    /\ \E present \in BOOLEAN :
         fs = [f \in Files |->
                 IF f = SOURCE_IMAGE /\ present THEN SourceFile ELSE NoFile]
    /\ log = << >>
    /\ ret = "none"
    /\ exc = "none"
    /\ propagated = FALSE
    /\ exitCode = 0
    /\ reads = {}
    /\ attempts = [k \in 1..MaxSteps |-> 0]
    /\ saved = {}
    /\ failedAt = 0
    /\ runs = 0
    /\ pix = NoPix
    /\ disk = [f \in Files |-> NoPix]
    /\ fonts = NoFonts

\* ------------------------------------------------------------------------
\* The entry points
\* ------------------------------------------------------------------------

\* An exception of class kind raised inside the try block at the current
\* step: control goes to the except block when the class is caught, and
\* leaves the entry point (and ends the process with status 1) when not.
Raise(kind) ==
    /\ exc' = kind
    /\ failedAt' = IF pc = "open" THEN -1 ELSE step
    /\ IF Caught(kind)
       THEN /\ pc' = "handler"
            /\ UNCHANGED << propagated, exitCode, ret >>
       ELSE /\ pc' = "exited"
            /\ propagated' = TRUE
            /\ exitCode' = 1
            /\ ret' = "none"

\* python <script>: the __main__ block calls the entry point.  The two
\* main() print their banner line before the try block.
Start(s) ==
    /\ pc \in {"idle", "exited"}
    /\ runs < MaxRuns
    /\ runs' = runs + 1
    /\ script' = s
    /\ buf' = NoBuf
    /\ ret' = "none"
    /\ exc' = "none"
    /\ propagated' = FALSE
    /\ attempts' = [k \in 1..MaxSteps |-> 0]
    /\ saved' = {}
    /\ failedAt' = 0
    /\ IF s \in SourceScripts
       THEN /\ pc' = "check"
            /\ step' = 0
            /\ log' = << >>
       ELSE /\ pc' = "draw"
            /\ step' = 1
            /\ log' = << Line("banner") >>
    /\ pix' = NoPix
    /\ fonts' = NoFonts
    /\ UNCHANGED << fs, exitCode, reads, disk >>

\* SourceMissing with the existence check left out.
SourceMissingUnchecked(s) == FALSE

\* not os.path.exists(source)
SourceMissing(s) == fs[SourcePath(s)] = NoFile

\* if not os.path.exists(source): print(...); return
CheckSource ==
    /\ pc = "check"
    /\ IF SourceMissing(script)
       THEN /\ log' = Append(log, Line("notfound"))
            /\ ret' = MissingReturn(script)
            /\ exitCode' = ExitCode(script, MissingReturn(script))
            /\ pc' = "exited"
       ELSE /\ pc' = "open"
            /\ UNCHANGED << log, ret, exitCode >>
    /\ UNCHANGED << script, step, buf, fs, exc, propagated, reads, attempts,
                    saved, failedAt, runs, pix, disk,
                    fonts >>

\* Image.open(source); print("Loaded/Opened source image ...").  A file
\* that is not there (or not an image) makes the open raise.
OpenSource ==
    /\ pc = "open"
    /\ reads' = reads \cup {SourcePath(script)}
    /\ \/ /\ fs[SourcePath(script)] # NoFile
          /\ pc' = "draw"
          /\ step' = 1
          /\ log' = Append(log, Line("loaded"))
          /\ UNCHANGED << exc, failedAt, propagated, exitCode, ret >>
       \/ /\ \E kind \in OpenErrors : Raise(kind)
          /\ UNCHANGED << step, log >>
    /\ UNCHANGED << script, buf, fs, attempts, saved, runs, pix, disk,
                    fonts >>

\* Draw with the step's status line printed ahead of its save.
DrawAnnouncesFirst ==
    /\ pc = "draw"
    /\ attempts' = [attempts EXCEPT ![step] = @ + 1]
    /\ LET a == AllocSteps(script)[step] IN
       \/ /\ buf' = IF a.kind = "reuse" THEN buf ELSE [w |-> a.w, h |-> a.h]
          /\ pix' = Paint(script, step, pix)
          /\ log' = Append(log, [tag |-> "created", name |-> a.name])
          /\ pc' = IF LoadsFont(script, step) THEN "font" ELSE "save"
          /\ UNCHANGED << exc, failedAt, propagated, exitCode, ret >>
       \/ /\ a.kind # "reuse"
          /\ \E kind \in DrawErrors : Raise(kind)
          /\ UNCHANGED << buf, pix, log >>
    /\ UNCHANGED << script, step, fs, reads, saved, runs, disk, fonts >>

\* The body of one creation step up to its save, or in a step with text
\* up to the loading of its fonts: the buffer is allocated (Image.new,
\* img.resize) and drawn into; generate_assets' third step keeps the buffer
\* of its second.
Draw ==
    /\ pc = "draw"
    /\ attempts' = [attempts EXCEPT ![step] = @ + 1]
    /\ LET a == AllocSteps(script)[step] IN
       \/ /\ buf' = IF a.kind = "reuse" THEN buf ELSE [w |-> a.w, h |-> a.h]
          /\ pix' = Paint(script, step, pix)
          /\ pc' = IF LoadsFont(script, step) THEN "font" ELSE "save"
          /\ UNCHANGED << exc, failedAt, propagated, exitCode, ret >>
       \/ /\ a.kind # "reuse"
          /\ \E kind \in DrawErrors : Raise(kind)
          /\ UNCHANGED << buf, pix >>
    /\ UNCHANGED << script, step, fs, log, reads, saved, runs, disk, fonts >>

\* try: font_large = truetype("arial.ttf", ..); font_small = truetype(..)
\* except: font_large = load_default(); font_small = load_default()
\* (the banner: one font).  The bare except catches whatever a truetype
\* call raises, and the step goes on to its text.
LoadFonts ==
    /\ pc = "font"
    /\ reads' = reads \cup {FONT_FILE}
    /\ \E outcome \in FontOutcomes(script, step) :
          fonts' = FontsAfter(script, step, outcome)
    /\ pc' = "text"
    /\ UNCHANGED << script, step, buf, fs, log, ret, exc, propagated, exitCode,
                    attempts, saved, failedAt, runs, pix, disk >>

\* draw.textbbox / draw.text with the fonts held, up to the save.
DrawText ==
    /\ pc = "text"
    /\ \/ /\ pc' = "save"
          /\ UNCHANGED << exc, failedAt, propagated, exitCode, ret >>
       \/ \E kind \in DrawErrors : Raise(kind)
    /\ UNCHANGED << script, step, buf, fs, log, reads, attempts, saved, runs,
                    pix, disk, fonts >>

\* img.save(os.path.join(ASSETS_DIR, name))
Save ==
    /\ pc = "save"
    /\ LET a == AllocSteps(script)[step] IN
       \/ /\ fs' = [fs EXCEPT ![a.name] =
                      [w |-> buf.w, h |-> buf.h, by |-> script, run |-> runs]]
          /\ disk' = [disk EXCEPT ![a.name] = pix]
          /\ saved' = saved \cup {a.name}
          /\ pc' = "print"
          /\ UNCHANGED << exc, failedAt, propagated, exitCode, ret >>
       \/ /\ \E kind \in SaveErrors : Raise(kind)
          /\ UNCHANGED << fs, saved, disk >>
    /\ UNCHANGED << script, step, buf, log, reads, attempts, runs, pix,
                    fonts >>

\* print("Created <name> ...") and on to the next step; generate_assets
\* has no closing line and returns after its last step's line.
PrintCreated ==
    /\ pc = "print"
    /\ log' = Append(log, [tag |-> "created", name |-> AllocSteps(script)[step].name])
    /\ IF step < NSteps(script)
       THEN /\ step' = step + 1
            /\ pc' = "draw"
            /\ UNCHANGED << ret, exitCode >>
       ELSE IF script = "generate_assets"
            THEN /\ pc' = "exited"
                 /\ ret' = SuccessReturn(script)
                 /\ exitCode' = ExitCode(script, SuccessReturn(script))
                 /\ UNCHANGED step
            ELSE /\ pc' = "success"
                 /\ UNCHANGED << step, ret, exitCode >>
    /\ UNCHANGED << script, buf, fs, exc, propagated, reads, attempts, saved,
                    failedAt, runs, pix, disk,
                    fonts >>

\* print("All ... generated successfully!") (and the summary list), then
\* the return.
PrintSuccess ==
    /\ pc = "success"
    /\ log' = Append(log, Line("success"))
    /\ ret' = SuccessReturn(script)
    /\ exitCode' = ExitCode(script, SuccessReturn(script))
    /\ pc' = "exited"
    /\ UNCHANGED << script, step, buf, fs, exc, propagated, reads, attempts,
                    saved, failedAt, runs, pix, disk,
                    fonts >>

\* Handler as a handler that runs the failed step again would be.
HandlerRetry ==
    /\ pc = "handler"
    /\ log' = log \o HandlerOutput(script)
    /\ pc' = IF failedAt = -1 THEN "open" ELSE "draw"
    /\ UNCHANGED << script, step, buf, fs, ret, exc, propagated, exitCode,
                    reads, attempts, saved, failedAt, runs, pix, disk,
                    fonts >>

\* except Exception as e: print(...) [traceback.print_exc()] [return False]
Handler ==
    /\ pc = "handler"
    /\ log' = log \o HandlerOutput(script)
    /\ ret' = HandlerReturn(script)
    /\ exitCode' = ExitCode(script, HandlerReturn(script))
    /\ pc' = "exited"
    /\ UNCHANGED << script, step, buf, fs, exc, propagated, reads, attempts,
                    saved, failedAt, runs, pix, disk,
                    fonts >>

\* ------------------------------------------------------------------------
\* Float arithmetic
\*
\* The colour formulas are evaluated in Python floats (IEEE 754 doubles,
\* round to nearest, ties to even) and cut to an integer by int().  A
\* natural number is a sequence of limbs, least significant first; a float
\* is m * 2^e with m a natural number of at most MantissaBits bits.  Every
\* value met here is positive and far from the exponent limits.
\* ------------------------------------------------------------------------

\* Bits of a double's significand.
MantissaBits == 53

LimbBits == 10

Radix == 2^LimbBits

\* Limbs computed after the binary point by a division.
FracLimbs == 8

RECURSIVE Trim(_)
Trim(n) ==
    IF n = << >> THEN << >>
    ELSE IF n[Len(n)] = 0 THEN Trim(SubSeq(n, 1, Len(n) - 1)) ELSE n

RECURSIVE FromNat(_)
FromNat(k) == IF k = 0 THEN << >> ELSE << k % Radix >> \o FromNat(k \div Radix)

RECURSIVE ToNat(_)
ToNat(n) == IF n = << >> THEN 0 ELSE n[1] + Radix * ToNat(Tail(n))

RECURSIVE Carry(_, _)
Carry(n, c) ==
    IF n = << >> THEN FromNat(c)
    ELSE << (n[1] + c) % Radix >> \o Carry(Tail(n), (n[1] + c) \div Radix)

Limb(n, i) == IF i >= 1 /\ i <= Len(n) THEN n[i] ELSE 0

MaxOf(a, b) == IF a >= b THEN a ELSE b
MinOf(a, b) == IF a <= b THEN a ELSE b

BigAdd(a, b) ==
    Trim(Carry([i \in 1..MaxOf(Len(a), Len(b)) |-> Limb(a, i) + Limb(b, i)], 0))

RECURSIVE SubLimbs(_, _, _, _)
SubLimbs(a, b, i, borrow) ==
    IF i > Len(a) THEN << >>
    ELSE LET v == a[i] - Limb(b, i) - borrow
         IN  << IF v < 0 THEN v + Radix ELSE v >>
             \o SubLimbs(a, b, i + 1, IF v < 0 THEN 1 ELSE 0)

\* a - b for a >= b.
BigSub(a, b) == Trim(SubLimbs(a, b, 1, 0))

BigMulSmall(a, k) == Trim(Carry([i \in 1..Len(a) |-> a[i] * k], 0))

RECURSIVE ColumnSum(_, _, _, _)
ColumnSum(a, b, k, i) ==
    IF i > MinOf(Len(a), k) THEN 0
    ELSE a[i] * Limb(b, k + 1 - i) + ColumnSum(a, b, k, i + 1)

BigMul(a, b) ==
    IF a = << >> \/ b = << >> THEN << >>
    ELSE Trim(Carry([k \in 1..(Len(a) + Len(b) - 1) |->
                        ColumnSum(a, b, k, MaxOf(1, k + 1 - Len(b)))], 0))

\* a * 2^k
ShiftLeft(a, k) ==
    BigMulSmall([i \in 1..(k \div LimbBits) |-> 0] \o a, 2^(k % LimbBits))

\* floor(a / 2^k)
ShiftRight(a, k) ==
    LET drop == k \div LimbBits
        r == k % LimbBits
    IN  Trim([i \in 1..MaxOf(Len(a) - drop, 0) |->
                (Limb(a, i + drop) \div 2^r)
                + (Limb(a, i + drop + 1) % 2^r) * 2^(LimbBits - r)])

\* Bit k of a, bit 0 the least significant.
Bit(a, k) == (Limb(a, k \div LimbBits + 1) \div 2^(k % LimbBits)) % 2

\* a mod 2^k is not 0.
LowBitsSet(a, k) ==
    \/ \E i \in 1..MinOf(k \div LimbBits, Len(a)) : a[i] # 0
    \/ Limb(a, k \div LimbBits + 1) % 2^(k % LimbBits) # 0

\* Number of bits of a (trimmed).
BitLen(a) ==
    IF a = << >> THEN 0
    ELSE LimbBits * (Len(a) - 1)
         + (CHOOSE k \in 1..LimbBits : 2^(k - 1) <= a[Len(a)] /\ a[Len(a)] < 2^k)

\* The double nearest to n * 2^e (+ a positive rest below the last bit of n
\* when sticky), ties to even.
RoundToDouble(n, e, sticky) ==
    LET t == Trim(n)
        len == BitLen(t)
        s == len - MantissaBits
    IN  IF s <= 0 THEN [m |-> t, e |-> e]
        ELSE LET q == ShiftRight(t, s)
                 half == Bit(t, s - 1) = 1
                 rest == LowBitsSet(t, s - 1) \/ sticky
                 odd == Bit(t, s) = 1
             IN  [m |-> IF half /\ (rest \/ odd) THEN BigAdd(q, << 1 >>) ELSE q,
                  e |-> e + s]

\* float(k) of a small natural number.
FloatOfInt(k) == [m |-> FromNat(k), e |-> 0]

RECURSIVE LongDiv(_, _, _, _)
LongDiv(rem, b, k, acc) ==
    IF k = 0 THEN [digits |-> acc, rem |-> rem]
    ELSE LongDiv((rem * Radix) % b, b, k - 1, << (rem * Radix) \div b >> \o acc)

\* a / b of two integers, 0 <= a, 0 < b: Python's true division, correctly
\* rounded.
FloatDiv(a, b) ==
    LET d == LongDiv(a % b, b, FracLimbs, << >>)
    IN  RoundToDouble(d.digits \o FromNat(a \div b), -(LimbBits * FracLimbs),
                      d.rem # 0)

FloatAdd(x, y) ==
    LET e == MinOf(x.e, y.e)
    IN  RoundToDouble(BigAdd(ShiftLeft(x.m, x.e - e), ShiftLeft(y.m, y.e - e)),
                      e, FALSE)

\* x - y for x >= y.
FloatSub(x, y) ==
    LET e == MinOf(x.e, y.e)
    IN  RoundToDouble(BigSub(ShiftLeft(x.m, x.e - e), ShiftLeft(y.m, y.e - e)),
                      e, FALSE)

FloatMul(x, y) == RoundToDouble(BigMul(x.m, y.m), x.e + y.e, FALSE)

\* int(x) for x >= 0: the fraction is cut off.
IntOfFloat(x) ==
    IF x.e >= 0 THEN ToNat(ShiftLeft(x.m, x.e)) ELSE ToNat(ShiftRight(x.m, -x.e))

\* int(c1 * (1 - ratio) + c2 * ratio)
Lerp(c1, c2, ratio) ==
    IntOfFloat(FloatAdd(FloatMul(FloatOfInt(c1), FloatSub(FloatOfInt(1), ratio)),
                        FloatMul(FloatOfInt(c2), ratio)))

\* int(c * (1 - ratio * 0.3)); the literal 0.3 is the double nearest 3/10.
Darken(c, ratio) ==
    IntOfFloat(FloatMul(FloatOfInt(c),
                        FloatSub(FloatOfInt(1), FloatMul(ratio, FloatDiv(3, 10)))))

\* ------------------------------------------------------------------------
\* The gradient loops
\* ------------------------------------------------------------------------

\* create_creative_icons.py:14-19
COLOR_ORANGE == << 212, 132, 92 >>
COLOR_GREEN == << 91, 155, 110 >>
COLOR_BEIGE == << 232, 213, 196 >>
COLOR_WHITE == << 255, 255, 255 >>
COLOR_DARK == << 42, 42, 42 >>
COLOR_LIGHT_GRAY == << 200, 200, 200 >>

\* create_professional_icons.py:14-16
COLOR_PRIMARY == << 91, 155, 110 >>
COLOR_SECONDARY == << 212, 132, 92 >>
COLOR_ACCENT == << 232, 213, 196 >>

\* int(math.sqrt(n))
IntSqrt(n) == CHOOSE r \in 0..n : r * r <= n /\ (r + 1) * (r + 1) > n

\* The loops of the scripts that step a colour between two endpoints (mode
\* "lerp") or darken one colour (mode "darken").  first, stop, stride: the
\* range() of the loop variable i; num: the numerator of the ratio, i or
\* den - i; draw: what each iteration draws with its colour, a filled
\* ellipse of radius i about the centre, an arc, a one-pixel column or a
\* row; half: the distance from the centre to the edge of the canvas.
ProgramLoops ==
    { [id |-> "create_main_icon", draw |-> "ellipse",
       c1 |-> COLOR_GREEN, c2 |-> COLOR_BEIGE, den |-> 1024 \div 2 - 20,
       first |-> 0, stop |-> 1024 \div 2 - 20, stride |-> 1,
       num |-> "i", mode |-> "lerp", half |-> 1024 \div 2],
      [id |-> "create_splash_icon", draw |-> "ellipse",
       c1 |-> COLOR_BEIGE, c2 |-> COLOR_GREEN, den |-> 1280 \div 2,
       first |-> 1280 \div 2, stop |-> 0, stride |-> -20,
       num |-> "den-i", mode |-> "lerp", half |-> 1280 \div 2],
      [id |-> "create_app_store_icon", draw |-> "arc",
       c1 |-> COLOR_GREEN, c2 |-> COLOR_BEIGE, den |-> 200,
       first |-> 0, stop |-> 200, stride |-> 1,
       num |-> "i", mode |-> "lerp", half |-> 1024 \div 2],
      [id |-> "create_banner_icon", draw |-> "line",
       c1 |-> COLOR_BEIGE, c2 |-> COLOR_GREEN, den |-> 1200,
       first |-> 0, stop |-> 1200, stride |-> 1,
       num |-> "i", mode |-> "lerp", half |-> 1200 \div 2],
      [id |-> "create_professional_main_icon", draw |-> "ellipse",
       c1 |-> COLOR_PRIMARY, c2 |-> COLOR_ACCENT, den |-> 1024 \div 2,
       first |-> 1024 \div 2, stop |-> 0, stride |-> -2,
       num |-> "den-i", mode |-> "lerp", half |-> 1024 \div 2],
      [id |-> "create_professional_favicon", draw |-> "ellipse",
       c1 |-> COLOR_PRIMARY, c2 |-> COLOR_ACCENT, den |-> 192 \div 2 - 8,
       first |-> 192 \div 2 - 8, stop |-> 0, stride |-> -2,
       num |-> "den-i", mode |-> "lerp", half |-> 192 \div 2],
      [id |-> "create_professional_splash", draw |-> "ellipse",
       c1 |-> COLOR_ACCENT, c2 |-> COLOR_PRIMARY,
       den |-> IntSqrt(640 * 640 + 640 * 640) + 100,
       first |-> IntSqrt(640 * 640 + 640 * 640) + 100, stop |-> 0, stride |-> -20,
       num |-> "i", mode |-> "lerp", half |-> 1280 \div 2],
      [id |-> "create_professional_notification_icon", draw |-> "ellipse",
       c1 |-> COLOR_SECONDARY, c2 |-> COLOR_SECONDARY, den |-> 192 \div 2 - 12,
       first |-> 192 \div 2 - 12, stop |-> 0, stride |-> -2,
       num |-> "den-i", mode |-> "darken", half |-> 192 \div 2],
      [id |-> "create_professional_app_store_icon", draw |-> "arc",
       c1 |-> COLOR_PRIMARY, c2 |-> COLOR_ACCENT, den |-> 200,
       first |-> 200, stop |-> 0, stride |-> -2,
       num |-> "i", mode |-> "lerp", half |-> 1024 \div 2],
      [id |-> "create_professional_banner", draw |-> "line",
       c1 |-> COLOR_ACCENT, c2 |-> COLOR_PRIMARY, den |-> 1200,
       first |-> 0, stop |-> 1200, stride |-> 1,
       num |-> "i", mode |-> "lerp", half |-> 1200 \div 2],
      [id |-> "create_professional_logo_variant", draw |-> "ellipse",
       c1 |-> COLOR_PRIMARY, c2 |-> COLOR_ACCENT, den |-> 512 \div 2 - 20,
       first |-> 512 \div 2 - 20, stop |-> 0, stride |-> -2,
       num |-> "den-i", mode |-> "lerp", half |-> 512 \div 2] }

\* The colours create_gradient_background is called with.
ThemeColours == {COLOR_ORANGE, COLOR_GREEN, COLOR_BEIGE, COLOR_WHITE,
                 COLOR_DARK, COLOR_LIGHT_GRAY}

\* create_gradient_background(img, color1, color2) on an image of height
\* rows: one colour per row y in range(height), ratio = y / height.
create_gradient_background(color1, color2, height) ==
    [id |-> "create_gradient_background", draw |-> "row",
     c1 |-> color1, c2 |-> color2, den |-> height,
     first |-> 0, stop |-> height, stride |-> 1,
     num |-> "i", mode |-> "lerp", half |-> 0]

NoLoop ==
    [id |-> "none", draw |-> "none", c1 |-> COLOR_WHITE, c2 |-> COLOR_WHITE,
     den |-> 1, first |-> 0, stop |-> 0, stride |-> 1, num |-> "i",
     mode |-> "lerp", half |-> 0]

\* len(range(first, stop, stride))
RangeLen(first, stop, stride) ==
    IF stride > 0
    THEN MaxOf(0, (stop - first + stride - 1) \div stride)
    ELSE MaxOf(0, (first - stop - stride - 1) \div (-stride))

Count(L) == RangeLen(L.first, L.stop, L.stride)

\* The value of the loop variable in iteration k (from 0).
Sample(L, k) == L.first + k * L.stride

Samples(L) == {Sample(L, k) : k \in 0..(Count(L) - 1)}

\* The farthest pixel of the ray that lies on the canvas and in the largest
\* ellipse of the loop; -1 when the loop draws no ellipses.
RayExtent(L) ==
    IF L.draw = "ellipse"
    THEN MinOf(MaxOf(L.first, Sample(L, Count(L) - 1)), L.half)
    ELSE -1

Unpainted == [by |-> -1, col |-> COLOR_WHITE]

NoColour == << -1, -1, -1 >>

GradIdle ==
    /\ g = NoLoop
    /\ gk = 0
    /\ gNum = -1
    /\ gCol = NoColour
    /\ gPrevNum = -1
    /\ gPrevCol = NoColour
    /\ gSawZero = FALSE
    /\ gSawOne = FALSE
    /\ ray = << >>

\* A drawing function reaches its gradient loop (or
\* create_gradient_background is called): the buffer is freshly allocated.
GradStart ==
    /\ g = NoLoop
    /\ \E L \in ProgramLoops \cup
                {create_gradient_background(a, b, h) :
                    a \in ThemeColours, b \in ThemeColours, h \in 1..MaxHeight} :
          /\ g' = L
          /\ ray' = [d \in 0..RayExtent(L) |-> Unpainted]
    /\ UNCHANGED << gk, gNum, gCol, gPrevNum, gPrevCol, gSawZero, gSawOne >>

\* The colour of one iteration: ratio = num / den; r, g, b each
\* int(c1 * (1 - ratio) + c2 * ratio), or int(c * (1 - ratio * 0.3)).
LoopColour(L, num) ==
    LET ratio == FloatDiv(num, L.den)
    IN  [ch \in 1..3 |->
           IF L.mode = "lerp" THEN Lerp(L.c1[ch], L.c2[ch], ratio)
           ELSE Darken(L.c1[ch], ratio)]

\* draw.ellipse([center - i, center - i, center + i, center + i], fill=col):
\* every pixel of the ray up to distance i takes the colour.
FillEllipse(r, i, col) ==
    [d \in DOMAIN r |-> IF d <= i THEN [by |-> i, col |-> col] ELSE r[d]]

\* One iteration of the loop.
GradStep ==
    /\ g # NoLoop
    /\ gk < Count(g)
    /\ LET i == Sample(g, gk)
           num == IF g.num = "i" THEN i ELSE g.den - i
           col == LoopColour(g, num)
       IN  /\ gNum' = num
           /\ gCol' = col
           /\ gSawZero' = (gSawZero \/ num = 0)
           /\ gSawOne' = (gSawOne \/ num = g.den)
           /\ ray' = IF g.draw = "ellipse" THEN FillEllipse(ray, i, col) ELSE ray
    /\ gPrevNum' = gNum
    /\ gPrevCol' = gCol
    /\ gk' = gk + 1
    /\ UNCHANGED g

\* ------------------------------------------------------------------------
\* The icon loop of generate_icons.create_icons
\* ------------------------------------------------------------------------

SrcSides ==
    {1 + SrcStride * k : k \in 0..MaxSrcK}
    \cup UNION {{ICONS[k].w - 1, ICONS[k].w, ICONS[k].w + 1} : k \in 1..Len(ICONS)}

CeilDiv(a, b) == (a + b - 1) \div b

AbsOf(a) == IF a < 0 THEN -a ELSE a

\* round_aspect(number, key) of Image.thumbnail:
\* max(min(floor(number), ceil(number), key=key), 1) with lo, hi the floor
\* and the ceiling and klo, khi their keys (the distance between the aspect
\* ratio and the ratio the candidate would give) brought to one
\* denominator.  min() keeps the first of two equal keys; the keys are
\* floats, and where they are equal as fractions the rounding of the floats
\* decides, so both candidates are kept.
RoundAspect(lo, hi, klo, khi) ==
    {MaxOf(n, 1) : n \in
        IF lo = hi THEN {lo}
        ELSE IF klo < khi THEN {lo}
        ELSE IF khi < klo THEN {hi}
        ELSE {lo, hi}}

\* key=lambda n: abs(aspect - n / y), times h * y.
WidthKey(w, h, y, n) == AbsOf(w * y - n * h)

\* key=lambda n: 0 if n == 0 else abs(aspect - x / n), times h: a fraction
\* with numerator HeightKeyNum and denominator HeightKeyDen.
HeightKeyNum(w, h, x, n) == IF n = 0 THEN 0 ELSE AbsOf(w * n - x * h)
HeightKeyDen(n) == IF n = 0 THEN 1 ELSE n

\* ThumbnailSizes with the thumbnail() call left out.
ThumbnailSizesNoResize(w, h, x, y) == {[w |-> w, h |-> h]}

\* The sizes source_resized can have after
\* source_resized.thumbnail((x, y), LANCZOS) on a w x h copy (Pillow's
\* preserve_aspect_ratio): unchanged when it fits, else the larger side cut
\* to the target and the other side scaled by the aspect ratio w / h.
ThumbnailSizes(w, h, x, y) ==
    IF x >= w /\ y >= h THEN {[w |-> w, h |-> h]}
    ELSE IF x * h >= w * y
    THEN LET lo == (y * w) \div h
             hi == CeilDiv(y * w, h)
         IN  {[w |-> n, h |-> y] :
                n \in RoundAspect(lo, hi, WidthKey(w, h, y, lo),
                                  WidthKey(w, h, y, hi))}
    ELSE LET lo == (x * h) \div w
             hi == CeilDiv(x * h, w)
         IN  {[w |-> x, h |-> n] :
                n \in RoundAspect(lo, hi,
                                  HeightKeyNum(w, h, x, lo) * HeightKeyDen(hi),
                                  HeightKeyNum(w, h, x, hi) * HeightKeyDen(lo))}

NoSize == [w |-> 0, h |-> 0]

\* SourceAfterIcon with thumbnail() called on `source` itself.
SourceAfterIconInPlace(src, r) == r

\* What `source` is after one pass that cut its copy down to r:
\* source_resized = source.copy() is a new image, and thumbnail() works in
\* place on that copy; no statement of the loop body assigns to or calls a
\* mutating method of `source`.
SourceAfterIcon(src, r) == src

ThumbIdle ==
    /\ tOpened = NoSize
    /\ tSrc = NoSize
    /\ tIdx = 0
    /\ tResized = NoSize
    /\ tPos = << 0, 0 >>
    /\ tIcon = NoSize

\* source = Image.open(SOURCE_IMAGE): an image of some size.
ThumbStart ==
    /\ tSrc = NoSize
    /\ \E w \in SrcSides, h \in SrcSides :
          /\ tSrc' = [w |-> w, h |-> h]
          /\ tOpened' = [w |-> w, h |-> h]
    /\ UNCHANGED << tIdx, tResized, tPos, tIcon >>

\* One pass of `for icon_name, size in ICONS.items()`: a transparent icon
\* of the target size, a copy of the source cut down by thumbnail(), pasted
\* at the centring offsets, and the icon saved.
ThumbIcon ==
    /\ tSrc # NoSize
    /\ tIdx < Len(ICONS)
    /\ LET size == ICONS[tIdx + 1] IN
       \E r \in ThumbnailSizes(tSrc.w, tSrc.h, size.w, size.h) :
          /\ tResized' = r
          /\ tPos' = << (size.w - r.w) \div 2, (size.h - r.h) \div 2 >>
          /\ tIcon' = [w |-> size.w, h |-> size.h]
          /\ tSrc' = SourceAfterIcon(tSrc, r)
    /\ tIdx' = tIdx + 1
    /\ UNCHANGED tOpened

\* ------------------------------------------------------------------------
\* The heart polygons
\* ------------------------------------------------------------------------

\* AngleRange with the angle run over radians: range(0, int(2 * pi), stride).
AngleRangeRadians(stride) == [first |-> 0, stop |-> 6, stride |-> stride]

\* for angle in range(0, 360, stride)
AngleRange(stride) == [first |-> 0, stop |-> 360, stride |-> stride]

\* The hearts create_creative_icons draws inline, each with its own loop
\* and an unguarded draw.polygon.
CreativeHearts ==
    {[site |-> "create_main_icon",      stride |-> 5],
     [site |-> "create_adaptive_icon",  stride |-> 10],
     [site |-> "create_favicon",        stride |-> 15],
     [site |-> "create_splash_icon",    stride |-> 3],
     [site |-> "create_app_store_icon", stride |-> 2],
     [site |-> "create_banner_icon",    stride |-> 5]}

\* float(i) for i in range(first, stop, stride), stride < 0.
LayerSizes(first, stop, stride) ==
    {FloatOfInt(first + k * stride) :
        k \in 0..(RangeLen(first, stop, stride) - 1)}

\* int(k * num / den), the literal num/den being a double.
IntOfScaled(k, num, den) ==
    IntOfFloat(FloatMul(FloatOfInt(k), FloatDiv(num, den)))

\* The size arguments create_professional_icons passes to
\* draw_smooth_heart: a float for an outline or a single heart, the
\* integers of the layer loops.
SmoothHeartSizes ==
    LET main == FloatMul(FloatOfInt(IntOfScaled(1024 \div 2, 75, 100)),
                         FloatDiv(5, 10))
        outline == FloatMul(main, FloatDiv(105, 100))
    IN  {outline}
        \cup LayerSizes(IntOfFloat(outline),
                        IntOfFloat(FloatMul(main, FloatDiv(8, 10))), -2)
        \cup LayerSizes(28, IntOfScaled(28, 6, 10), -1)
        \cup {FloatMul(FloatOfInt(192 \div 2 - 8 - 18), FloatDiv(65, 100))}
        \cup LayerSizes(300, IntOfScaled(300, 7, 10), -2)
        \cup LayerSizes(350, IntOfScaled(350, 7, 10), -3)
        \cup {FloatOfInt(120)}
        \cup {FloatMul(FloatOfInt(512 \div 2 - 20 - 40), FloatDiv(6, 10))}

\* The inline hearts have no size parameter.
NoSizeArg == FloatOfInt(0)

\* Every heart the two scripts draw.  guarded: the polygon call stands
\* under `if len(points) > 2`.
HeartCalls ==
    {[site |-> h.site, first |-> AngleRange(h.stride).first,
      stop |-> AngleRange(h.stride).stop, stride |-> AngleRange(h.stride).stride,
      guarded |-> FALSE, size |-> NoSizeArg] : h \in CreativeHearts}
    \cup
    {[site |-> "draw_smooth_heart", first |-> AngleRange(2).first,
      stop |-> AngleRange(2).stop, stride |-> AngleRange(2).stride,
      guarded |-> TRUE, size |-> sz] : sz \in SmoothHeartSizes}

NoHeart == [site |-> "none", first |-> 0, stop |-> 0, stride |-> 1,
            guarded |-> FALSE, size |-> NoSizeArg]

HeartIdle ==
    /\ hCall = NoHeart
    /\ hNext = 0
    /\ hPoints = << >>
    /\ hDrawn = << >>
    /\ hDone = FALSE

\* points = []; the loop starts.
HeartStart ==
    /\ hCall = NoHeart
    /\ \E c \in HeartCalls :
          /\ hCall' = c
          /\ hNext' = c.first
    /\ UNCHANGED << hPoints, hDrawn, hDone >>

\* One pass of the loop: the curve is sampled at `angle`, scaled by
\* size / 20, and the point appended.
HeartStep ==
    /\ hCall # NoHeart
    /\ ~hDone
    /\ hNext < hCall.stop
    /\ hPoints' = Append(hPoints, hNext)
    /\ hNext' = hNext + hCall.stride
    /\ UNCHANGED << hCall, hDrawn, hDone >>

\* [if len(points) > 2:] draw.polygon(points, ...)
HeartPolygon ==
    /\ hCall # NoHeart
    /\ ~hDone
    /\ hNext >= hCall.stop
    /\ hDrawn' = IF hCall.guarded /\ ~(Len(hPoints) > 2) THEN << >> ELSE hPoints
    /\ hDone' = TRUE
    /\ UNCHANGED << hCall, hNext, hPoints >>

\* ------------------------------------------------------------------------
\* Specifications
\* ------------------------------------------------------------------------

Init == RunInit /\ GradIdle /\ ThumbIdle /\ HeartIdle

Next ==
    \/ (\E s \in Scripts : Start(s)) /\ UNCHANGED << gradVars, thumbVars, heartVars >>
    \/ CheckSource /\ UNCHANGED << gradVars, thumbVars, heartVars >>
    \/ OpenSource /\ UNCHANGED << gradVars, thumbVars, heartVars >>
    \/ Draw /\ UNCHANGED << gradVars, thumbVars, heartVars >>
    \/ LoadFonts /\ UNCHANGED << gradVars, thumbVars, heartVars >>
    \/ DrawText /\ UNCHANGED << gradVars, thumbVars, heartVars >>
    \/ Save /\ UNCHANGED << gradVars, thumbVars, heartVars >>
    \/ PrintCreated /\ UNCHANGED << gradVars, thumbVars, heartVars >>
    \/ PrintSuccess /\ UNCHANGED << gradVars, thumbVars, heartVars >>
    \/ Handler /\ UNCHANGED << gradVars, thumbVars, heartVars >>

\* The runs of the four scripts.
Spec == Init /\ [][Next]_vars

\* No script runs: the assets directory holds the source image only.
RunIdle == RunInit /\ fs[SOURCE_IMAGE] = SourceFile

GradInit == RunIdle /\ GradIdle /\ ThumbIdle /\ HeartIdle

GradNext ==
    \/ GradStart /\ UNCHANGED << runVars, thumbVars, heartVars >>
    \/ GradStep /\ UNCHANGED << runVars, thumbVars, heartVars >>

\* The gradient loops.
SpecGrad == GradInit /\ [][GradNext]_vars

ThumbInit == RunIdle /\ GradIdle /\ ThumbIdle /\ HeartIdle

ThumbNext ==
    \/ ThumbStart /\ UNCHANGED << runVars, gradVars, heartVars >>
    \/ ThumbIcon /\ UNCHANGED << runVars, gradVars, heartVars >>

\* The icon loop of create_icons over source images of every size.
SpecThumb == ThumbInit /\ [][ThumbNext]_vars

HeartInit == RunIdle /\ GradIdle /\ ThumbIdle /\ HeartIdle

HeartNext ==
    \/ HeartStart /\ UNCHANGED << runVars, gradVars, thumbVars >>
    \/ HeartStep /\ UNCHANGED << runVars, gradVars, thumbVars >>
    \/ HeartPolygon /\ UNCHANGED << runVars, gradVars, thumbVars >>

\* The heart loops of both scripts.
SpecHeart == HeartInit /\ [][HeartNext]_vars

\* ------------------------------------------------------------------------
\* Properties of the runs (Spec)
\* ------------------------------------------------------------------------

Printed(t) == \E i \in 1..Len(log) : log[i].tag = t

Raised == exc # "none"

\* The files written in the current run: every save stamps its run.
WrittenThisRun == {f \in Files : fs[f].run = runs /\ runs > 0}

\* C1: an exception raised by an opening, drawing, resizing or saving step
\* is caught by the entry point's catch-all: no exception leaves the entry
\* point, the entry point returns (None, or create_icons' False), and the
\* exit status stays 0.
C1_ExceptionsAreCaught ==
    /\ ~propagated
    /\ exitCode = 0
    /\ Raised => pc \in {"handler", "exited"}
    /\ Raised /\ pc = "exited" =>
         ret = (IF script = "generate_icons" THEN "False" ELSE "None")

C1_Witness ==
    /\ pc = "exited"
    /\ script = "generate_icons"
    /\ exc = "ValueError"
    /\ ret = "False"
    /\ exitCode = 0

C3_MissingSourceHalts ==
    pc = "exited" /\ script \in SourceScripts /\ fs[SOURCE_IMAGE] = NoFile =>
        /\ log = << Line("notfound") >>
        /\ ~Raised
        /\ ~propagated
        /\ SOURCE_IMAGE \notin reads
        /\ saved = {}
        /\ WrittenThisRun = {}
        /\ ret = (IF script = "generate_icons" THEN "False" ELSE "None")

C3_Witness ==
    /\ pc = "exited"
    /\ script = "generate_assets"
    /\ fs[SOURCE_IMAGE] = NoFile
    /\ Printed("notfound")
    /\ ret = "None"
    /\ runs = 2
    /\ fs["icon.png"].by = "create_creative_icons"

\* The size script s documents for file f (w = 0: none).
DocOf(s, f) ==
    LET k == CHOOSE k \in 1..Len(DocSteps(s)) : DocSteps(s)[k].name = f
    IN  DocSteps(s)[k]

\* C4: every file on disk has the pixel size that the script which wrote it
\* documents for it, and the buffer handed to save has the size it was
\* allocated with.
C4_SavedSizeIsDocumentedSize ==
    /\ \A f \in Files : fs[f].by \in Scripts =>
          /\ \E k \in 1..Len(DocSteps(fs[f].by)) : DocSteps(fs[f].by)[k].name = f
          /\ DocOf(fs[f].by, f).w # 0 =>
                /\ fs[f].w = DocOf(fs[f].by, f).w
                /\ fs[f].h = DocOf(fs[f].by, f).h
    /\ pc = "print" =>
          /\ fs[AllocSteps(script)[step].name].w = buf.w
          /\ fs[AllocSteps(script)[step].name].h = buf.h
    /\ fs["icon.png"].by \in Scripts =>
          fs["icon.png"].w = 1024 /\ fs["icon.png"].h = 1024
    /\ fs["notification-icon.png"].by \in Scripts =>
          fs["notification-icon.png"].w = 192 /\ fs["notification-icon.png"].h = 192
    /\ fs["banner-icon.png"].by \in Scripts =>
          fs["banner-icon.png"].w = 1200 /\ fs["banner-icon.png"].h = 400
    /\ fs["logo-variant.png"].by \in Scripts =>
          fs["logo-variant.png"].w = 512 /\ fs["logo-variant.png"].h = 512
    /\ fs["favicon.png"].by \in Scripts =>
          fs["favicon.png"].w = 192 /\ fs["favicon.png"].h = 192

C4_Witness ==
    /\ pc = "exited"
    /\ fs["logo-variant.png"] =
         [w |-> 512, h |-> 512, by |-> "create_professional_icons", run |-> 1]
    /\ fs["banner-icon.png"].w = 1200
    /\ fs["banner-icon.png"].h = 400
    /\ fs["favicon.png"] =
         [w |-> 192, h |-> 192, by |-> "generate_icons", run |-> 2]

\* C5: in one run each step is entered at most once; once step k has
\* raised, no later step is entered, the run stays at step k, and the files
\* saved by the steps before k are on disk as those steps wrote them.
C5_NoRetryNoRollback ==
    /\ \A k \in 1..MaxSteps : attempts[k] <= 1
    /\ failedAt = -1 => \A k \in 1..MaxSteps : attempts[k] = 0
    /\ failedAt > 0 =>
          /\ step = failedAt
          /\ attempts[failedAt] = 1
          /\ \A j \in 1..MaxSteps : j > failedAt => attempts[j] = 0
          /\ \A j \in 1..(failedAt - 1) :
                fs[AllocSteps(script)[j].name] =
                   [w |-> AllocSteps(script)[j].w, h |-> AllocSteps(script)[j].h,
                    by |-> script, run |-> runs]

C5_Witness ==
    /\ pc = "exited"
    /\ script = "create_creative_icons"
    /\ failedAt = 3
    /\ saved = {"icon.png", "adaptive-icon.png"}
    /\ fs["adaptive-icon.png"].run = runs
    /\ fs["favicon.png"].by = "generate_icons"

\* C6: the files read (the source image, the font) and the files written
\* (the output PNGs) are disjoint: no run opens a file a script writes, the
\* source image is never written, and each script writes only its own
\* output names.
C6_ReadsAndWritesDisjoint ==
    /\ reads \subseteq {SOURCE_IMAGE, FONT_FILE}
    /\ reads \cap AllOutputs = {}
    /\ fs[SOURCE_IMAGE] \in {SourceFile, NoFile}
    /\ \A f \in Files : fs[f].by \in Scripts => f \in OutputNames(fs[f].by)
    /\ SOURCE_IMAGE \notin AllOutputs
    /\ FONT_FILE \notin AllOutputs

C6_Witness ==
    /\ pc = "exited"
    /\ runs = 2
    /\ reads = {SOURCE_IMAGE, FONT_FILE}
    /\ fs["icon.png"].by = "generate_assets"
    /\ fs["banner-icon.png"].by = "create_creative_icons"
    /\ fs[SOURCE_IMAGE] = SourceFile

\* C7: the "generated successfully" line, and create_icons' True, come only
\* in a run that saved every file of the script's output set (7, 8, 4
\* files); create_icons returns False whenever the source was missing or a
\* step raised.
C7_SuccessMeansAllSaved ==
    /\ Printed("success") =>
          /\ script \in Scripts \ {"generate_assets"}
          /\ saved = OutputNames(script)
          /\ WrittenThisRun = OutputNames(script)
          /\ \A f \in OutputNames(script) : fs[f].by = script
          /\ Cardinality(saved) =
               (CASE script = "create_creative_icons" -> 7
                  [] script = "create_professional_icons" -> 8
                  [] script = "generate_icons" -> 4)
          /\ ~Raised
    /\ ret = "True" => script = "generate_icons" /\ Printed("success")
    /\ pc = "exited" /\ script = "generate_icons"
         /\ (Raised \/ fs[SOURCE_IMAGE] = NoFile) => ret = "False"

C7_Witness ==
    /\ pc = "exited"
    /\ script = "generate_icons"
    /\ ret = "True"
    /\ Printed("success")
    /\ Cardinality(saved) = 4
    /\ runs = 2

\* C12: once generate_assets has saved splash-icon.png, that file and
\* adaptive-icon.png show the same picture: the transparent 1024x1024
\* canvas with the source resized to 720x720 pasted at (152, 152), which
\* leaves 152 pixels on each of the four sides; between the two saves the
\* buffer is the one adaptive-icon.png was saved from.
C12_SplashEqualsAdaptive ==
    /\ script = "generate_assets" /\ step = 3 /\ pc \in {"save", "print"} =>
          /\ pix = disk["adaptive-icon.png"]
          /\ buf.w = fs["adaptive-icon.png"].w
          /\ buf.h = fs["adaptive-icon.png"].h
    /\ script = "generate_assets" /\ "splash-icon.png" \in saved =>
          LET a == disk["adaptive-icon.png"]
              f == fs["adaptive-icon.png"]
          IN  /\ disk["splash-icon.png"] = a
              /\ fs["splash-icon.png"] = f
              /\ f.w = 1024 /\ f.h = 1024
              /\ a.canvas = "transparent"
              /\ a.paste = "resize"
              /\ a.logo = [w |-> 720, h |-> 720]
              /\ a.at = << 152, 152 >>
              /\ f.w - a.logo.w - a.at[1] = 152
              /\ f.h - a.logo.h - a.at[2] = 152

C12_Witness ==
    /\ pc = "exited"
    /\ script = "generate_assets"
    /\ ~Raised
    /\ saved = {"icon.png", "adaptive-icon.png", "splash-icon.png"}
    /\ disk["splash-icon.png"].at = << 152, 152 >>
    /\ disk["splash-icon.png"] = disk["adaptive-icon.png"]
    /\ disk["icon.png"] # disk["splash-icon.png"]
    /\ disk["favicon.png"].drawing = << "create_creative_icons", 3 >>

\* The names of the "Created <name>" lines printed so far in this run.
CreatedNames ==
    LET lines == SelectSeq(log, LAMBDA l : l.tag = "created")
    IN  [i \in 1..Len(lines) |-> lines[i].name]

\* C14: the names of the status lines printed so far are the first names
\* of the script's output list, in order and once each; each of them was
\* saved in this run before its line; the step at its print has just
\* saved its file; and a step that raised (in its body or in its save) has
\* no status line, nor has any step after it.
C14_StatusLinesFollowSaves ==
    /\ script \in Scripts =>
          /\ Len(CreatedNames) <= NSteps(script)
          /\ \A i \in 1..Len(CreatedNames) :
                /\ CreatedNames[i] = AllocSteps(script)[i].name
                /\ CreatedNames[i] \in saved
                /\ fs[CreatedNames[i]].by = script
                /\ fs[CreatedNames[i]].run = runs
          /\ pc \in {"draw", "font", "text", "save", "print"} =>
                Len(CreatedNames) = step - 1
          /\ pc = "print" => AllocSteps(script)[step].name \in saved
          /\ pc \in {"draw", "font", "text", "save"} =>
                saved = {CreatedNames[i] : i \in 1..Len(CreatedNames)}
          /\ failedAt > 0 =>
                /\ Len(CreatedNames) = failedAt - 1
                /\ AllocSteps(script)[failedAt].name \notin saved
    /\ script = "none" => log = << >>

C14_Witness ==
    /\ pc = "exited"
    /\ script = "generate_assets"
    /\ exc = "OSError"
    /\ failedAt = 3
    /\ CreatedNames = << "icon.png", "adaptive-icon.png" >>
    /\ saved = {"icon.png", "adaptive-icon.png"}
    /\ fs["splash-icon.png"].by = "create_professional_icons"

\* A step with text that is past the loading of its fonts.
FontsLoaded ==
    /\ script \in Scripts
    /\ step >= 1
    /\ LoadsFont(script, step)
    /\ pc \in {"text", "save", "print"}

\* C15: the loading of the fonts always hands the step on to its text, with
\* no exception raised; a splash step then holds two truetype fonts or two
\* default fonts, a banner step one truetype or one default font; and a
\* step only fails by an exception of its drawing or of its save.
C15_FontFailureFallsBack ==
    /\ [](FontsLoaded =>
            IF step = 4
            THEN fonts \in {[large |-> "truetype", small |-> "truetype"],
                            [large |-> "default", small |-> "default"]}
            ELSE fonts \in {[large |-> "truetype", small |-> "none"],
                            [large |-> "default", small |-> "none"]})
    /\ [](pc = "font" => ~Raised)
    /\ [][pc = "font" => pc' = "text" /\ ~Raised' /\ ~propagated']_vars

C15_Witness ==
    /\ pc = "exited"
    /\ script = "create_creative_icons"
    /\ ~Raised
    /\ Printed("success")
    /\ fonts = [large |-> "default", small |-> "default"]
    /\ fs["splash-icon.png"].by = "create_creative_icons"
    /\ fs["splash-icon.png"].run = runs
    /\ FONT_FILE \in reads

\* The ICONS entry of file f.
IconsEntry(f) == ICONS[CHOOSE k \in 1..Len(ICONS) : ICONS[k].name = f]

IconsNames == {ICONS[k].name : k \in 1..Len(ICONS)}

\* C13 as stated: each of the four files of the ICONS table, once a script
\* has written it, has the size the table gives, whichever script wrote it.
C13_Original ==
    \A f \in IconsNames : fs[f].by \in Scripts =>
        fs[f].w = IconsEntry(f).w /\ fs[f].h = IconsEntry(f).h

\* C13 amended: icon.png and favicon.png have their ICONS size whichever
\* script wrote them; adaptive-icon.png and splash-icon.png have their
\* ICONS size (108x108, 1280x1280) when create_icons or one of the two
\* create_* scripts wrote them last, and are 1024x1024 when generate_assets
\* wrote them last.
C13_TableSizeExceptGenerateAssets ==
    \A f \in IconsNames : fs[f].by \in Scripts =>
        IF fs[f].by = "generate_assets"
             /\ f \in {"adaptive-icon.png", "splash-icon.png"}
        THEN fs[f].w = 1024 /\ fs[f].h = 1024
        ELSE fs[f].w = IconsEntry(f).w /\ fs[f].h = IconsEntry(f).h

C13_Witness ==
    /\ pc = "exited"
    /\ runs = 2
    /\ fs["adaptive-icon.png"] =
         [w |-> 1024, h |-> 1024, by |-> "generate_assets", run |-> 2]
    /\ fs["splash-icon.png"] =
         [w |-> 1280, h |-> 1280, by |-> "create_creative_icons", run |-> 1]
    /\ fs["favicon.png"].w = 192
    /\ fs["icon.png"].by = "generate_assets"

\* ------------------------------------------------------------------------
\* Properties of the gradient loops (SpecGrad)
\* ------------------------------------------------------------------------

LoopDone == g # NoLoop /\ gk = Count(g)

\* The radius of the smallest ellipse of loop L that covers distance d.
RingOf(L, d) ==
    CHOOSE i \in Samples(L) :
        i >= d /\ \A j \in Samples(L) : j >= d => i <= j

\* C8 as stated: when a loop of concentric filled ellipses has finished,
\* every pixel of the disc carries the colour computed for its own radius
\* (that of the smallest ellipse of the loop that covers it), and the disc
\* is not of one colour.
C8_DiscShowsGradient ==
    LoopDone /\ g.draw = "ellipse" =>
        /\ \A d \in DOMAIN ray : ray[d].by = RingOf(g, d)
        /\ \E d1 \in DOMAIN ray, d2 \in DOMAIN ray : ray[d1].col # ray[d2].col

C10_ResizedCopyFitsAndIsCentred ==
    tIdx > 0 =>
        LET size == ICONS[tIdx]
            right == size.w - tResized.w - tPos[1]
            bottom == size.h - tResized.h - tPos[2]
        IN  /\ tResized.w >= 1 /\ tResized.w <= size.w
            /\ tResized.h >= 1 /\ tResized.h <= size.h
            /\ tPos[1] >= 0 /\ tPos[2] >= 0
            /\ right - tPos[1] \in {0, 1}
            /\ bottom - tPos[2] \in {0, 1}
            /\ tIcon = [w |-> size.w, h |-> size.h]

C10_Witness ==
    /\ tIdx = 2
    /\ tSrc = [w |-> 1111, h |-> 371]
    /\ tResized = [w |-> 192, h |-> 64]
    /\ tPos = << 0, 64 >>
    /\ tIcon = [w |-> 192, h |-> 192]

\* C11: the per-icon loop of create_icons leaves `source` as Image.open
\* returned it, and the resized copy of every pass is a thumbnail of that
\* original for the pass's own ICONS entry, whatever passes came before: a
\* source at least 1280 pixels on a side still gives a splash copy with a
\* 1280-pixel side after the 108x108 pass.
C11_SourceUntouchedByLoop ==
    /\ tSrc = tOpened
    /\ tIdx > 0 =>
          /\ tResized \in ThumbnailSizes(tOpened.w, tOpened.h,
                                         ICONS[tIdx].w, ICONS[tIdx].h)
          /\ ICONS[tIdx].name = "splash-icon.png"
                /\ tOpened.w >= 1280 /\ tOpened.h >= 1280 =>
                   tResized.w = 1280 \/ tResized.h = 1280

C11_Witness ==
    /\ tIdx = 4
    /\ ICONS[tIdx].name = "splash-icon.png"
    /\ tOpened = [w |-> 1481, h |-> 1333]
    /\ tSrc = tOpened
    /\ tResized.w = 1280
    /\ tResized.h > 108

\* ------------------------------------------------------------------------
\* Properties of the heart polygons (SpecHeart)
\* ------------------------------------------------------------------------

\* C16: the points of a heart are sampled at the angles 0, stride,
\* 2 * stride, ... below 360; a finished heart has 360 / stride of them (72,
\* 36, 24, 120, 180, 72 in the creative functions, 180 in
\* draw_smooth_heart), which is more than 2, and the polygon drawn is the
\* whole point list, whatever the size argument.
C16_HeartHasAllItsPoints ==
    hCall # NoHeart =>
        /\ \A i \in 1..Len(hPoints) : hPoints[i] = (i - 1) * hCall.stride
        /\ hDone =>
              /\ 360 % hCall.stride = 0
              /\ Len(hPoints) = 360 \div hCall.stride
              /\ Len(hPoints) =
                    (CASE hCall.site = "create_main_icon" -> 72
                       [] hCall.site = "create_adaptive_icon" -> 36
                       [] hCall.site = "create_favicon" -> 24
                       [] hCall.site = "create_splash_icon" -> 120
                       [] hCall.site = "create_app_store_icon" -> 180
                       [] hCall.site = "create_banner_icon" -> 72
                       [] hCall.site = "draw_smooth_heart" -> 180)
              /\ Len(hPoints) > 2
              /\ hDrawn = hPoints

C16_Witness ==
    /\ hDone
    /\ hCall.site = "draw_smooth_heart"
    /\ IntOfFloat(hCall.size) = 201
    /\ hCall.size # FloatOfInt(201)
    /\ Len(hDrawn) = 180
    /\ hDrawn[180] = 358

====
